---- MODULE Spec2Model ----
(***************************************************************************)
(* Model of pontoon/base/management/commands/update_auth_providers.py:     *)
(* the management command that makes the allauth SocialApp rows match the  *)
(* *_CLIENT_ID / *_SECRET_KEY settings and attaches them to the default    *)
(* site.                                                                   *)
(***************************************************************************)
EXTENDS Integers, Sequences, FiniteSets, TLC

VARIABLES
    cfg,        \* settings: provider index -> [client_id, secret]
    SITE_ID,    \* settings.SITE_ID
    store,      \* SocialApp table: sequence of rows, the index is the pk
    pc,         \* per invocation: position inside handle / update_provider
    idx,        \* per invocation: which of the six blocks of handle is running
    app,        \* per invocation: pk of the fetched row, 0 = DoesNotExist
    out,        \* per invocation: lines written to stdout in this run
    runs,       \* number of runs started so far
    store0,     \* the table as it was when the latest run started
    overlapped  \* TRUE once a run started while another one was in progress

vars == <<cfg, SITE_ID, store, pc, idx, app, out, runs, store0, overlapped>>

----------------------------------------------------------------------------
(* Bounds of the model *)

\* how many of the six providers have a settings value or a row at the start
MaxActive == 2
\* how many runs of the command are started in one behaviour
MaxRuns == 3

----------------------------------------------------------------------------
(* Program constants *)

None == "None"

NumProviders == 6

PROVIDER_ID == <<"fxa", "github", "gitlab", "google", "keycloak", "discord">>

PROVIDER_NAME == <<"FxA", "GitHub", "GitLab", "Google", "Keycloak", "Discord">>

Providers == 1..NumProviders

\* the pks of the rows of the Site table (owned by django.contrib.sites)
Sites == {1, 2}

\* the values settings.SITE_ID takes: 999 names no row of the Site table
SiteIds == {1, 2, 999}

UPDATED == "Updated existing authentication provider"
CREATED == "Created new authentication provider"

----------------------------------------------------------------------------
(* Pure parts of the command *)

\* (variant) the guard written with "or": one value is enough to sync
IsConfigured_Either(c) == c.client_id # None \/ c.secret # None

\* the guard of each block of handle
IsConfigured(c) == c.client_id # None /\ c.secret # None

\* the dict(...) built by block i of handle
Data(i, c) ==
    [name |-> PROVIDER_NAME[i], provider |-> PROVIDER_ID[i],
     client_id |-> c[i].client_id, secret |-> c[i].secret]

\* (variant) the lookup compares the key with the display name column
Matching_ByName(st, key) == {pk \in DOMAIN st : st[pk].name = key}

\* pks of the rows SocialApp.objects.filter(provider=key) matches
Matching(st, key) == {pk \in DOMAIN st : st[pk].provider = key}

\* (variant) the lookup never finds the row
Get_NeverFinds(st, key) == [res |-> "DoesNotExist", pk |-> 0]

\* SocialApp.objects.get(provider=key)
Get(st, key) ==
    LET m == Matching(st, key) IN
    IF m = {} THEN [res |-> "DoesNotExist", pk |-> 0]
    ELSE IF Cardinality(m) = 1 THEN [res |-> "found", pk |-> CHOOSE x \in m : TRUE]
    ELSE [res |-> "MultipleObjectsReturned", pk |-> 0]

\* (variant) the update leaves the stored secret alone
SetAttrs_KeepsSecret(rec, data) ==
    [rec EXCEPT !.name = data.name, !.provider = data.provider,
                !.client_id = data.client_id]

\* (variant) the update replaces the row by a fresh one, dropping its sites
SetAttrs_Recreate(rec, data) ==
    [name |-> data.name, provider |-> data.provider,
     client_id |-> data.client_id, secret |-> data.secret, sites |-> {}]

\* for k, v in data.items(): setattr(app, k, v)
SetAttrs(rec, data) ==
    [rec EXCEPT !.name = data.name, !.provider = data.provider,
                !.client_id = data.client_id, !.secret = data.secret]

\* SocialApp(**data): a new row has no sites
NewApp(data) ==
    [name |-> data.name, provider |-> data.provider,
     client_id |-> data.client_id, secret |-> data.secret, sites |-> {}]

\* (variant) the default site is attached whatever the row already has
NeedsSite_Always(rec) == TRUE

\* sites_count == 0
NeedsSite(rec) == Cardinality(rec.sites) = 0

\* (variant) the site is fetched with get_or_create: the lookup cannot fail
SiteExists_Always(id) == TRUE

\* Site.objects.get(pk=settings.SITE_ID) finds a row
SiteExists(id) == id \in Sites

\* (variant) the site is fetched but never added
AddSite_Noop(sites, s) == sites

\* app.sites.add(default_site)
AddSite(sites, s) == sites \cup {s}

\* (variant) both branches write the "Updated existing" line
ReportLine_AlwaysUpdated(found, pk) == <<UPDATED, pk>>

\* the line update_provider writes: "Updated existing" in the try branch,
\* "Created new" in the except branch, each with the pk of the saved row
ReportLine(found, pk) == <<IF found THEN UPDATED ELSE CREATED, pk>>

\* control after block i of handle: the next block, or the end of handle
AfterBlock(i) ==
    IF i = NumProviders THEN [pc |-> "done", idx |-> i]
    ELSE [pc |-> "check", idx |-> i + 1]

\* (variant) the exception is caught per provider and handle goes on
Raise_Isolated(i) == AfterBlock(i)

\* an exception update_provider does not catch leaves block i and handle:
\* the command ends with an error, no later block runs
Raise(i) == [pc |-> "failed", idx |-> i]

Running(p) == pc[p] \in {"check", "lookup", "save", "attach"}

----------------------------------------------------------------------------
(* Initial states *)

NoCfg == [client_id |-> None, secret |-> None]

CfgPairs == {[client_id |-> a, secret |-> b] : a \in {None, "id1"}, b \in {None, "sec1"}}

\* what the table may hold for a provider before the first run
RowOpts == {"absent", "nosites", "site2"}

OldRow(i, o) ==
    [name |-> "Legacy", provider |-> PROVIDER_ID[i], client_id |-> "id0",
     secret |-> "sec0", sites |-> IF o = "site2" THEN {2} ELSE {}]

RECURSIVE BuildStore(_, _)
BuildStore(opt, i) ==
    IF i = 0 THEN <<>>
    ELSE IF opt[i] = "absent" THEN BuildStore(opt, i - 1)
    ELSE Append(BuildStore(opt, i - 1), OldRow(i, opt[i]))

ActiveCombos ==
    {x \in [c : CfgPairs, row : RowOpts] : ~(x.c = NoCfg /\ x.row = "absent")}

Procs == {1, 2}

InitWith(rowOpts) ==
    /\ \E A \in {S \in SUBSET Providers : Cardinality(S) <= MaxActive} :
         \E f \in [A -> {x \in ActiveCombos : x.row \in rowOpts}] :
            /\ cfg = [i \in Providers |-> IF i \in A THEN f[i].c ELSE NoCfg]
            /\ store = BuildStore([i \in Providers |->
                                     IF i \in A THEN f[i].row ELSE "absent"],
                                  NumProviders)
    /\ SITE_ID \in SiteIds
    /\ pc = [p \in Procs |-> "idle"]
    /\ idx = [p \in Procs |-> 1]
    /\ app = [p \in Procs |-> 0]
    /\ out = [p \in Procs |-> <<>>]
    /\ runs = 0
    /\ store0 = store
    /\ overlapped = FALSE

Init == InitWith(RowOpts)

\* two invocations racing on an empty table
InitConc == InitWith({"absent"})

----------------------------------------------------------------------------
(* Steps of the command *)

\* manage.py update_auth_providers: enter handle. Invocation 2 stands for
\* whichever invocation starts second. A run may start while the other
\* invocation is in the middle of its own.
Start(p) ==
    /\ pc[p] \in {"idle", "done", "failed"}
    /\ runs < MaxRuns
    /\ p = 1 \/ pc[1] # "idle"
    /\ runs' = runs + 1
    /\ pc' = [pc EXCEPT ![p] = "check"]
    /\ idx' = [idx EXCEPT ![p] = 1]
    /\ app' = [app EXCEPT ![p] = 0]
    /\ out' = [out EXCEPT ![p] = <<>>]
    /\ store0' = store
    /\ overlapped' = (overlapped \/ \E q \in Procs \ {p} : Running(q))
    /\ UNCHANGED <<cfg, SITE_ID, store>>

\* the if of block idx[p] of handle
CheckConfig(p) ==
    /\ pc[p] = "check"
    /\ IF IsConfigured(cfg[idx[p]])
       THEN /\ pc' = [pc EXCEPT ![p] = "lookup"]
            /\ idx' = idx
       ELSE /\ pc' = [pc EXCEPT ![p] = AfterBlock(idx[p]).pc]
            /\ idx' = [idx EXCEPT ![p] = AfterBlock(idx[p]).idx]
    /\ UNCHANGED <<cfg, SITE_ID, store, app, out, runs, store0, overlapped>>

\* update_provider: SocialApp.objects.get(provider=data["provider"])
Lookup(p) ==
    /\ pc[p] = "lookup"
    /\ LET r == Get(store, Data(idx[p], cfg).provider) IN
         /\ app' = [app EXCEPT ![p] = r.pk]
         /\ IF r.res = "MultipleObjectsReturned"
            THEN /\ pc' = [pc EXCEPT ![p] = Raise(idx[p]).pc]
                 /\ idx' = [idx EXCEPT ![p] = Raise(idx[p]).idx]
            ELSE /\ pc' = [pc EXCEPT ![p] = "save"]
                 /\ idx' = idx
    /\ UNCHANGED <<cfg, SITE_ID, store, out, runs, store0, overlapped>>

\* update_provider: setattr ... app.save() and the line written, in either branch
Save(p) ==
    /\ pc[p] = "save"
    /\ LET data == Data(idx[p], cfg) IN
         IF app[p] # 0
         THEN /\ store' = [store EXCEPT ![app[p]] = SetAttrs(@, data)]
              /\ app' = app
              /\ out' = [out EXCEPT ![p] = Append(@, ReportLine(TRUE, app[p]))]
         ELSE /\ store' = Append(store, NewApp(data))
              /\ app' = [app EXCEPT ![p] = Len(store) + 1]
              /\ out' = [out EXCEPT ![p] = Append(@, ReportLine(FALSE, Len(store) + 1))]
    /\ pc' = [pc EXCEPT ![p] = "attach"]
    /\ UNCHANGED <<cfg, SITE_ID, idx, runs, store0, overlapped>>

\* update_provider: the sites count, the Site lookup and sites.add (adding a
\* site a row already has changes nothing, sites being a set)
Attach(p) ==
    /\ pc[p] = "attach"
    /\ IF NeedsSite(store[app[p]])
       THEN IF SiteExists(SITE_ID)
            THEN /\ store' = [store EXCEPT ![app[p]].sites = AddSite(@, SITE_ID)]
                 /\ pc' = [pc EXCEPT ![p] = AfterBlock(idx[p]).pc]
                 /\ idx' = [idx EXCEPT ![p] = AfterBlock(idx[p]).idx]
            ELSE /\ store' = store
                 /\ pc' = [pc EXCEPT ![p] = Raise(idx[p]).pc]
                 /\ idx' = [idx EXCEPT ![p] = Raise(idx[p]).idx]
       ELSE /\ store' = store
            /\ pc' = [pc EXCEPT ![p] = AfterBlock(idx[p]).pc]
            /\ idx' = [idx EXCEPT ![p] = AfterBlock(idx[p]).idx]
    /\ UNCHANGED <<cfg, SITE_ID, app, out, runs, store0, overlapped>>

Step(p) == Start(p) \/ CheckConfig(p) \/ Lookup(p) \/ Save(p) \/ Attach(p)

\* the command run by one operator, one run after the other
Next == Step(1)

Spec == Init /\ [][Next]_vars

\* two invocations of the command against the same database
NextConc == \E p \in Procs : Step(p)

SpecConc == InitConc /\ [][NextConc]_vars

----------------------------------------------------------------------------
(* Vocabulary of the properties, stated on the settings and the table *)

\* both settings of provider i have a value
BothPresent(i) == cfg[i].client_id # None /\ cfg[i].secret # None

\* the rows of table st that carry the provider key of provider i
RowsFor(st, i) == {pk \in DOMAIN st : st[pk].provider = PROVIDER_ID[i]}

\* the rows of provider i are what they were when the run started
RowsSame(i) ==
    {<<pk, store[pk]>> : pk \in RowsFor(store, i)} =
    {<<pk, store0[pk]>> : pk \in RowsFor(store0, i)}

\* provider i has exactly one row and it carries the two settings values
RowMatchesConfig(i) ==
    /\ Cardinality(RowsFor(store, i)) = 1
    /\ \A pk \in RowsFor(store, i) :
          /\ store[pk].client_id = cfg[i].client_id
          /\ store[pk].secret = cfg[i].secret

\* the run of invocation 1 is over
Ended == pc[1] \in {"done", "failed"}

\* the lines of the run, each as <<kind, provider the reported pk belongs to>>
Lines ==
    [k \in 1..Len(out[1]) |->
        <<out[1][k][1],
          CHOOSE i \in Providers : store[out[1][k][2]].provider = PROVIDER_ID[i]>>]

Reported(i, kind) == \E k \in 1..Len(out[1]) : Lines[k] = <<kind, i>>

\* when the run started, provider i had no row or a row without sites
NeedsDefaultSite(i) ==
    /\ BothPresent(i)
    /\ \/ RowsFor(store0, i) = {}
       \/ \E pk \in RowsFor(store0, i) : store0[pk].sites = {}

Needy == {i \in Providers : NeedsDefaultSite(i)}

FirstNeedy == CHOOSE i \in Needy : \A j \in Needy : i <= j

\* the blocks of handle that called update_provider in the run that ended
Synced(i) == BothPresent(i) /\ (pc[1] = "done" \/ i <= idx[1])

RECURSIVE ExpectedLines(_)
ExpectedLines(n) ==
    IF n = 0 THEN <<>>
    ELSE IF Synced(n)
         THEN Append(ExpectedLines(n - 1),
                     <<IF RowsFor(store0, n) = {} THEN CREATED ELSE UPDATED, n>>)
         ELSE ExpectedLines(n - 1)

----------------------------------------------------------------------------
(* Properties *)

\* C1: with an existing default site and a table holding at most one row per
\* provider key, a run ends without error and every provider whose two settings
\* are present then has exactly one row, carrying the settings' client id and
\* secret.
C1_UpsertMatchesConfig ==
    (Ended /\ SITE_ID \in Sites) =>
        /\ pc[1] = "done"
        /\ \A i \in Providers : BothPresent(i) => RowMatchesConfig(i)

C1_Witness ==
    /\ pc[1] = "done" /\ SITE_ID \in Sites
    /\ \E i, j \in Providers :
          /\ BothPresent(i) /\ RowsFor(store0, i) = {}
          /\ BothPresent(j) /\ RowsFor(store0, j) # {}
          /\ \E pk \in RowsFor(store0, j) : store0[pk].secret # cfg[j].secret

\* C2: a provider with a client id or a secret missing from the settings gets
\* no row from a run, and its row, if it has one, keeps every field and its
\* sites at every point of the run.
C2_SkippedUntouched ==
    \A i \in Providers : ~BothPresent(i) => RowsSame(i)

C2_Witness ==
    /\ pc[1] = "done"
    /\ \E i, j \in Providers :
          /\ ~BothPresent(i) /\ cfg[i] # NoCfg /\ RowsFor(store, i) # {}
          /\ BothPresent(j) /\ Reported(j, UPDATED)

\* C3 as stated: a second run with the same settings leaves the table as the
\* first run left it and reports "Updated existing", not "Created new", for
\* every provider whose two settings are present.
C3_Original ==
    (runs >= 2 /\ Ended) =>
        /\ store = store0
        /\ \A i \in Providers :
              BothPresent(i) => (Reported(i, UPDATED) /\ ~Reported(i, CREATED))

\* C3 amended: a second run with the same settings leaves the table as the
\* first run left it and reports "Created new" for no provider; it reports
\* "Updated existing" for every provider whose two settings are present when it
\* ends without error, and for those up to and including the failing provider
\* when the site lookup fails.
C3_Idempotent ==
    (runs >= 2 /\ Ended) =>
        /\ store = store0
        /\ \A i \in Providers : ~Reported(i, CREATED)
        /\ \A i \in Providers :
              (BothPresent(i) /\ (pc[1] = "done" \/ i <= idx[1]))
                  => Reported(i, UPDATED)
        /\ \A i \in Providers :
              (pc[1] = "failed" /\ i > idx[1]) => ~Reported(i, UPDATED)

C3_Witness ==
    /\ runs = 2 /\ pc[1] = "done"
    /\ Len(out[1]) = 2
    /\ \A i \in Providers : BothPresent(i) => RowMatchesConfig(i)

\* C4 as stated: after a run that ends without error every row of the table
\* has at least one site.
C4_Original ==
    pc[1] = "done" => \A pk \in DOMAIN store : store[pk].sites # {}

\* C4 amended: after a run that ends without error every row of a provider
\* whose two settings are present has at least one site.
C4_SyncedHaveSite ==
    pc[1] = "done" =>
        \A i \in Providers :
            BothPresent(i) =>
                /\ RowsFor(store, i) # {}
                /\ \A pk \in RowsFor(store, i) : store[pk].sites # {}

C4_Witness ==
    /\ pc[1] = "done"
    /\ \E i, j \in Providers :
          /\ BothPresent(i) /\ RowsFor(store0, i) = {}
          /\ BothPresent(j)
          /\ \E pk \in RowsFor(store0, j) :
                store0[pk].sites = {} /\ store[pk].sites = {SITE_ID}

\* the row of provider i was saved with the settings' values, was reported by
\* the last line written, and has no site
SavedThenFailed(i) ==
    /\ pc[1] = "failed" /\ idx[1] = i
    /\ RowMatchesConfig(i)
    /\ \A pk \in RowsFor(store, i) : store[pk].sites = {}
    /\ Len(out[1]) > 0
    /\ Lines[Len(out[1])] =
          <<IF RowsFor(store0, i) = {} THEN CREATED ELSE UPDATED, i>>

\* C5 as stated: with a default site that does not exist, for a provider whose
\* two settings are present and that has no row or a row without sites, the
\* run saves that provider's row, writes its line, then fails on the site
\* lookup, the row staying saved and without sites.
C5_Original ==
    (Ended /\ SITE_ID \notin Sites) =>
        \A i \in Needy :
            /\ pc[1] = "failed"
            /\ RowMatchesConfig(i)
            /\ \A pk \in RowsFor(store, i) : store[pk].sites = {}
            /\ \E kind \in {CREATED, UPDATED} : Reported(i, kind)

\* C5 amended: the same, for the first such provider in the fixed order.
C5_FirstNeedyFails ==
    (Ended /\ SITE_ID \notin Sites /\ Needy # {}) => SavedThenFailed(FirstNeedy)

C5_Witness ==
    /\ pc[1] = "failed" /\ SITE_ID \notin Sites
    /\ Cardinality(Needy) = 2
    /\ RowsFor(store0, FirstNeedy) = {}
    /\ SavedThenFailed(FirstNeedy)

\* C6: a run writes one line for each provider it syncs and none for the
\* others, in the order FxA, GitHub, GitLab, Google, Keycloak, Discord, and
\* the line says "Created new" exactly when the provider had no row.
C6_ReportLines == Ended => Lines = ExpectedLines(NumProviders)

C6_Witness ==
    /\ pc[1] = "done"
    /\ Len(out[1]) = 2
    /\ out[1][1][1] = CREATED /\ out[1][2][1] = UPDATED
    /\ \E i \in Providers : ~BothPresent(i) /\ Lines[1][2] < i /\ i < Lines[2][2]

C8_FailureAbortsRun ==
    (runs >= 1 /\ SITE_ID \notin Sites /\ Needy # {}) =>
        /\ pc[1] # "done"
        /\ \A j \in Providers :
              j > FirstNeedy =>
                  /\ RowsSame(j)
                  /\ \A kind \in {CREATED, UPDATED} : ~Reported(j, kind)
                  /\ ~(idx[1] = j /\ Running(1))
        /\ pc[1] = "failed" =>
              /\ idx[1] = FirstNeedy
              /\ \A i \in Providers :
                    (BothPresent(i) /\ i <= FirstNeedy) =>
                        (RowMatchesConfig(i) /\ Reported(i,
                            IF RowsFor(store0, i) = {} THEN CREATED ELSE UPDATED))

C8_Witness ==
    /\ pc[1] = "failed" /\ runs = 1
    /\ \E j \in Providers :
          /\ j > idx[1] /\ BothPresent(j)
          /\ \E pk \in RowsFor(store, j) : store[pk].client_id = "id0"

\* at most one row for each provider key
AtMostOnePerKey == \A i \in Providers : Cardinality(RowsFor(store, i)) <= 1

\* C9: two rows with one provider key arise only when two invocations
\* overlapped; while runs follow one another there is at most one row per key.
C9_DuplicateOnlyByRace == ~overlapped => AtMostOnePerKey

C9_Witness ==
    \E i \in Providers :
        /\ Cardinality(RowsFor(store, i)) = 2
        /\ \A p \in Procs :
              \E k \in 1..Len(out[p]) :
                  /\ out[p][k][1] = CREATED
                  /\ out[p][k][2] \in RowsFor(store, i)

====
